---- MODULE Spec2Model ----
(***************************************************************************)
(* PawsRise: parsing of the generated OpenVPN configuration, the parallel  *)
(* latency ranking of the servers, the menu loop of main and the           *)
(* supervision of the openvpn process in connect_to_server.                *)
(***************************************************************************)
EXTENDS Integers, Sequences, FiniteSets, TLC

VARIABLES
    confExists,       \* birdrequires/riseup-ovpn.conf exists on disk
    fresh,            \* the file on disk was written by this run of generate.sh
    content,          \* the lines of riseup-ovpn.conf
    eol,              \* riseup-ovpn.conf ends with a newline
    output,           \* the file create_server_specific_config wrote last
    reparsed,         \* extract_servers of that file
    choice_input,     \* display_servers_and_choose: choice_input
    message,          \* the error message the last input() was answered with
    pc,               \* position of the main thread
    servers,          \* main: servers
    futures,          \* find_fastest_server: state of each submitted probe
    results,          \* find_fastest_server: results, in completion order
    ranked_servers,   \* main: ranked_servers
    selected_server,  \* main: selected_server
    proc,             \* the process started by Popen: "none", "running",
                      \* "terminating" (terminate sent, still alive),
                      \* "exited" (on its own), "stopped" (after terminate)
    bound,            \* the local openvpn_process of connect_to_server is bound
    terminated,       \* terminate() calls of this connect_to_server
    elapsed,          \* time units spent in wait(timeout=5)
    caught,           \* except clause entered: "none", "KeyboardInterrupt", "Exception"
    pending,          \* an exception propagates while the finally block runs
    interrupts,       \* KeyboardInterrupts delivered to this connect_to_server
    verified,         \* outcome of verify_connection of this connect_to_server
    raised,           \* the exception that ended the program, "none" otherwise
    exitStatus        \* exit status of the program, -1 while it runs

vars == <<confExists, fresh, content, eol, output, reparsed, choice_input, message,
          pc, servers, futures, results,
          ranked_servers, selected_server, proc, bound, terminated, elapsed,
          caught, pending, interrupts, verified, raised, exitStatus>>

(***************************************************************************)
(* Bounds of the model.                                                    *)
(***************************************************************************)
NumHosts == 2
NumPorts == 2
MaxLines == 3
MaxLatency == 2
MaxInterrupts == 2
MaxDone == 2

(***************************************************************************)
(* Program constants.                                                      *)
(***************************************************************************)
\* float('inf'), the response time of an unreachable server
Inf == 1000000
\* ThreadPoolExecutor(max_workers=10)
max_workers == 10

Hostnames == 1..NumHosts
PortTokens == 1..NumPorts
IpOf(h) == 100 + h
LocationOf(h) == 200 + h

(***************************************************************************)
(* The configuration text, line by line.  A "remote" line is a line that   *)
(* remote_pattern matches: remote <ip> <port> # <hostname> (<location>).   *)
(* An "other" line is any line the pattern does not match.                 *)
(***************************************************************************)
RemoteLines ==
    { [kind |-> "remote", ip |-> IpOf(h), port |-> p, hostname |-> h,
       location |-> LocationOf(h)] : h \in Hostnames, p \in PortTokens }

OtherLine == [kind |-> "other", ip |-> 0, port |-> 0, hostname |-> 0, location |-> 0]

\* a second line the pattern does not match, different from the first
OtherLine2 == [kind |-> "other", ip |-> 0, port |-> 1, hostname |-> 0, location |-> 0]

\* remote <ip> <port> without the annotation: remote_pattern does not match
\* it, the pattern of line 99 does
BareLine == [kind |-> "bare", ip |-> IpOf(1), port |-> 1, hostname |-> 0, location |-> 0]

\* the empty line of the "\n\n" of line 107
BlankLine == [kind |-> "blank", ip |-> 0, port |-> 0, hostname |-> 0, location |-> 0]

LineAlphabet == RemoteLines \cup {OtherLine, OtherLine2, BareLine}

Texts == UNION { [1..n -> LineAlphabet] : n \in 0..MaxLines }

\* re.findall(remote_pattern, content): the matches, in text order
Matches(text) == SelectSeq(text, LAMBDA l : l.kind = "remote")

InPorts(port, ports) == \E k \in 1..Len(ports) : ports[k] = port

\* lines 50-51 without the membership test
AddPortNoDedup(ports, port) == Append(ports, port)

\* lines 50-51: if port not in servers_dict[hostname]['ports']: append
AddPort(ports, port) == IF InPorts(port, ports) THEN ports ELSE Append(ports, port)

InDict(dict, hostname) == \E k \in 1..Len(dict) : dict[k].hostname = hostname

\* lines 43-51: one iteration of the loop over the matches; servers_dict is
\* kept as the sequence of its values in insertion order
AddMatch(dict, m) ==
    LET d1 == IF InDict(dict, m.hostname)
              THEN dict
              ELSE Append(dict, [hostname |-> m.hostname, ip |-> m.ip,
                                 location |-> m.location, ports |-> <<>>])
    IN [k \in 1..Len(d1) |->
          IF d1[k].hostname = m.hostname
          THEN [d1[k] EXCEPT !.ports = AddPort(d1[k].ports, m.port)]
          ELSE d1[k]]

RECURSIVE GroupMatches(_, _)
GroupMatches(dict, ms) ==
    IF ms = <<>> THEN dict ELSE GroupMatches(AddMatch(dict, Head(ms)), Tail(ms))

\* lines 30-54
extract_servers(text) == GroupMatches(<<>>, Matches(text))

(***************************************************************************)
(* create_server_specific_config.  A file is its lines and whether the     *)
(* last line ends with a newline.                                          *)
(***************************************************************************)
File(lines, nl) == [lines |-> lines, eol |-> nl]

NoFile == File(<<>>, TRUE)

\* line 99: re.sub(r'remote\s+\d+\.\d+\.\d+\.\d+\s+\d+.*\n', '', content)
\* removes line i when it is a remote line, annotated or not, that a
\* newline follows
Stripped(text, nl, i) ==
    /\ text[i].kind \in {"remote", "bare"}
    /\ (i < Len(text) \/ nl)

RECURSIVE KeepFrom(_, _, _)
KeepFrom(text, nl, i) ==
    IF i > Len(text) THEN <<>>
    ELSE IF Stripped(text, nl, i) THEN KeepFrom(text, nl, i + 1)
         ELSE <<text[i]>> \o KeepFrom(text, nl, i + 1)

\* lines 102-104: one line per port of the server
ServerLines(server) ==
    [k \in 1..Len(server.ports) |->
        [kind |-> "remote", ip |-> server.ip, port |-> server.ports[k],
         hostname |-> server.hostname, location |-> server.location]]

\* lines 95-111: "\n".join(server_lines) + "\n\n" + content
create_server_specific_config(text, nl, server) ==
    LET kept == KeepFrom(text, nl, 1)
        head == IF server.ports = <<>>
                THEN <<BlankLine, BlankLine>>
                ELSE ServerLines(server) \o <<BlankLine>>
    IN File(head \o kept, IF kept = <<>> THEN TRUE ELSE nl)

(***************************************************************************)
(* find_fastest_server.  A result is the pair (server, response_time).     *)
(***************************************************************************)
ResponseTimes == (1..MaxLatency) \cup {Inf}

Result(server, rt) == [server |-> server, rt |-> rt]

\* list.sort(key=lambda x: x[1]) inserts each element after the elements
\* whose key is not greater: the sort is stable
InsertByRt(sorted, x) ==
    LET n == Cardinality({k \in 1..Len(sorted) : sorted[k].rt <= x.rt})
    IN SubSeq(sorted, 1, n) \o <<x>> \o SubSeq(sorted, n + 1, Len(sorted))

RECURSIVE SortInto(_, _)
SortInto(sorted, rest) ==
    IF rest = <<>> THEN sorted ELSE SortInto(InsertByRt(sorted, Head(rest)), Tail(rest))

\* line 89 left out
SortByRtOmitted(rs) == rs

\* line 89: reachable_servers.sort(key=lambda x: x[1])
SortByRt(rs) == SortInto(<<>>, rs)

\* line 83
Reachable(rs) == SelectSeq(rs, LAMBDA r : r.rt # Inf)

\* line 86 returning the collected results instead of rebuilding from servers
AllUnreachableFromResults(svs, rs) == rs

\* line 86: [(server, float('inf')) for server in servers]
AllUnreachable(svs, rs) == [k \in 1..Len(svs) |-> Result(svs[k], Inf)]

\* lines 82-91 without the filter of line 83
RankKeepingUnreachable(svs, rs) == SortByRt(rs)

\* lines 82-91
RankResults(svs, rs) ==
    IF Reachable(rs) = <<>> THEN AllUnreachable(svs, rs) ELSE SortByRt(Reachable(rs))

Running == {k \in DOMAIN futures : futures[k] = "running"}
Queued == {k \in DOMAIN futures : futures[k] = "queued"}

(***************************************************************************)
(* The session: main from the run of generate.sh on.                       *)
(***************************************************************************)
\* a generated file: one line that is no directive, then one directive for
\* each of the first n hosts
SessionText(n) ==
    <<OtherLine>> \o
    [k \in 1..n |-> [kind |-> "remote", ip |-> IpOf(k), port |-> 1,
                     hostname |-> k, location |-> LocationOf(k)]]

SessionTexts == {SessionText(n) : n \in 0..NumHosts}

NoServer == [hostname |-> 0, ip |-> 0, location |-> 0, ports |-> <<>>]

NoInput == [kind |-> "none", n |-> 0]

Locals ==
    /\ bound = FALSE
    /\ terminated = 0
    /\ elapsed = 0
    /\ caught = "none"
    /\ pending = FALSE
    /\ interrupts = 0
    /\ verified = "none"

Start(position, texts) ==
    /\ content \in texts
    /\ output = NoFile
    /\ reparsed = <<>>
    /\ choice_input = NoInput
    /\ message = "none"
    /\ pc = position
    /\ servers = <<>>
    /\ futures = <<>>
    /\ results = <<>>
    /\ ranked_servers = <<>>
    /\ selected_server = NoServer
    /\ proc = "none"
    /\ Locals
    /\ raised = "none"
    /\ exitStatus = -1

Init ==
    /\ confExists \in BOOLEAN
    /\ fresh = FALSE
    /\ eol = TRUE
    /\ Start("generate", SessionTexts)

InitParse ==
    /\ confExists = TRUE
    /\ fresh = TRUE
    /\ eol \in BOOLEAN
    /\ Start("parse", Texts)

connectVars == <<proc, bound, terminated, elapsed, caught, pending, interrupts, verified>>
rankVars == <<servers, futures, results, ranked_servers>>
diskVars == <<confExists, fresh, content, eol>>
synthVars == <<output, reparsed>>
uiVars == <<choice_input, message>>

\* sys.exit(status), or an exception nothing catches
Exit(status, exception) ==
    /\ pc' = "exited"
    /\ exitStatus' = status
    /\ raised' = exception

\* lines 296-298: run_with_hidden_output(["./generate.sh"]); its result is dropped
RunGenerator ==
    /\ pc = "generate"
    /\ \E ok \in BOOLEAN :
         /\ confExists' = (confExists \/ ok)
         /\ fresh' = ok
    /\ pc' = "check_conf"
    /\ UNCHANGED <<content, eol, rankVars, selected_server, synthVars, uiVars,
                   connectVars, raised, exitStatus>>

\* lines 300-304
CheckConf ==
    /\ pc = "check_conf"
    /\ IF confExists
       THEN pc' = "parse" /\ UNCHANGED <<raised, exitStatus>>
       ELSE Exit(1, "none")
    /\ UNCHANGED <<diskVars, rankVars, selected_server, synthVars, uiVars,
                   connectVars>>

\* line 307
MainParse ==
    /\ pc = "parse"
    /\ servers' = extract_servers(content)
    /\ pc' = "submit"
    /\ UNCHANGED <<diskVars, futures, results, ranked_servers, selected_server, synthVars, uiVars,
                   connectVars, raised, exitStatus>>

\* lines 75-77: every probe is submitted to the pool
Submit ==
    /\ pc = "submit"
    /\ futures' = [k \in 1..Len(servers) |-> "queued"]
    /\ results' = <<>>
    /\ pc' = "collect"
    /\ UNCHANGED <<diskVars, servers, ranked_servers, selected_server, synthVars, uiVars,
                   connectVars, raised, exitStatus>>

\* a pool that starts a worker for every submitted probe
ProbeStartUncapped(k) ==
    /\ pc = "collect"
    /\ k \in Queued
    /\ \A j \in Queued : k <= j
    /\ futures' = [futures EXCEPT ![k] = "running"]
    /\ UNCHANGED <<diskVars, pc, servers, results, ranked_servers, selected_server, synthVars, uiVars,
                   connectVars, raised, exitStatus>>

\* a worker of the pool takes the oldest queued probe (lines 56-63)
ProbeStart(k) ==
    /\ pc = "collect"
    /\ k \in Queued
    /\ \A j \in Queued : k <= j
    /\ Cardinality(Running) < max_workers
    /\ futures' = [futures EXCEPT ![k] = "running"]
    /\ UNCHANGED <<diskVars, pc, servers, results, ranked_servers, selected_server, synthVars, uiVars,
                   connectVars, raised, exitStatus>>

\* lines 64-69 and 79-80: the probe returns (server, response_time) or
\* (server, inf), and as_completed hands it to the main thread
ProbeFinish(k, rt) ==
    /\ pc = "collect"
    /\ k \in Running
    /\ futures' = [futures EXCEPT ![k] = "done"]
    /\ results' = Append(results, Result(servers[k], rt))
    /\ UNCHANGED <<diskVars, pc, servers, ranked_servers, selected_server, synthVars, uiVars,
                   connectVars, raised, exitStatus>>

\* lines 79-91 and 311: as_completed is exhausted, the ranking is returned
Rank ==
    /\ pc = "collect"
    /\ \A k \in DOMAIN futures : futures[k] = "done"
    /\ ranked_servers' = RankResults(servers, results)
    /\ pc' = "menu"
    /\ UNCHANGED <<diskVars, servers, futures, results, selected_server, synthVars, uiVars,
                   connectVars, raised, exitStatus>>


(***************************************************************************)
(* display_servers_and_choose.                                             *)
(***************************************************************************)
\* what the user types: "E", nothing, a number, or text that is no number
Inputs ==
    {[kind |-> k, n |-> 0] : k \in {"E", "empty", "text"}} \cup
    {[kind |-> "number", n |-> i] : i \in 0..(NumHosts + 1)}

\* lines 194-198
HasFastest == ranked_servers # <<>> /\ ranked_servers[1].rt # Inf

\* line 206 reached whether or not a default exists
ChosenDefaultAlways(input) ==
    IF input.kind = "empty" /\ ranked_servers # <<>> THEN ranked_servers[1].server
    ELSE IF input.kind = "number" /\ 1 <= input.n /\ input.n <= Len(ranked_servers)
         THEN ranked_servers[input.n].server
         ELSE NoServer

\* lines 201-220: the server the input selects, NoServer when the input is
\* rejected and the prompt repeats
Chosen(input) ==
    IF input.kind = "empty" /\ HasFastest THEN ranked_servers[1].server
    ELSE IF input.kind = "number" /\ 1 <= input.n /\ input.n <= Len(ranked_servers)
         THEN ranked_servers[input.n].server
         ELSE NoServer

\* line 217 left out
MessageNoneOutOfRange(input) ==
    IF input.kind = "text" THEN "Please enter a valid number" ELSE "none"

\* lines 213-220: what is printed before the prompt repeats: line 217 for
\* a number out of range, line 220 for text that is no number and not
\* empty, nothing for an empty input
Message(input) ==
    IF input.kind = "E" \/ Chosen(input) # NoServer THEN "none"
    ELSE IF input.kind = "number" THEN "Invalid choice"
         ELSE IF input.kind = "text" THEN "Please enter a valid number"
              ELSE "none"

\* line 170 guarded against an empty ranking
RenderWithoutIndexError ==
    /\ pc = "menu"
    /\ pc' = "prompt"
    /\ UNCHANGED <<diskVars, servers, ranked_servers, proc, futures, results,
                   selected_server, synthVars, uiVars, connectVars, raised, exitStatus>>

\* lines 316-191: the screen is cleared and the ranking printed; line 170
\* raises IndexError on an empty ranking.  The locals of the connect_to_server
\* and find_fastest_server calls that returned are gone.
Render ==
    /\ pc = "menu"
    /\ IF ranked_servers = <<>>
       THEN Exit(1, "IndexError")
       ELSE pc' = "prompt" /\ UNCHANGED <<raised, exitStatus>>
    /\ futures' = <<>>
    /\ results' = <<>>
    /\ bound' = FALSE
    /\ terminated' = 0
    /\ elapsed' = 0
    /\ caught' = "none"
    /\ pending' = FALSE
    /\ interrupts' = 0
    /\ verified' = "none"
    /\ selected_server' = NoServer
    /\ choice_input' = NoInput
    /\ message' = "none"
    /\ UNCHANGED <<diskVars, synthVars, servers, ranked_servers, proc>>

\* lines 201-220 and 324-329: one input() and what main does with the answer
Prompt(input) ==
    /\ pc = "prompt"
    /\ IF input.kind = "E"
       THEN /\ Exit(0, "none")
            /\ UNCHANGED selected_server
       ELSE IF Chosen(input) # NoServer
            THEN /\ selected_server' = Chosen(input)
                 /\ pc' = "synth"
                 /\ UNCHANGED <<raised, exitStatus>>
            ELSE UNCHANGED <<pc, selected_server, raised, exitStatus>>
    /\ choice_input' = input
    /\ message' = Message(input)
    /\ UNCHANGED <<diskVars, synthVars, rankVars, connectVars>>

(***************************************************************************)
(* connect_to_server.                                                      *)
(***************************************************************************)
\* wait(timeout=5)
GraceTimeout == 5

sessionVars == <<diskVars, rankVars, selected_server, synthVars, uiVars>>

\* openvpn_process.poll() is None
Alive == proc \in {"running", "terminating"}

Goto(position) == pc' = position /\ UNCHANGED <<raised, exitStatus>>

\* lines 224-228: create_server_specific_config, called before the try
\* statement: an error of open() or write() leaves connect_to_server and main
Synthesize ==
    /\ pc = "synth"
    /\ \E io \in {"ok", "IOError"} :
         IF io = "ok"
         THEN /\ Goto("launch")
              /\ output' = create_server_specific_config(content, eol, selected_server)
         ELSE /\ Exit(1, "IOError")
              /\ UNCHANGED output
    /\ choice_input' = NoInput
    /\ message' = "none"
    /\ UNCHANGED <<diskVars, rankVars, selected_server, reparsed, connectVars>>

\* lines 233-237: Popen starts openvpn, or raises (no openvpn executable)
Launch ==
    /\ pc = "launch"
    /\ \/ /\ proc' = "running"
          /\ bound' = TRUE
          /\ Goto("settle")
          /\ UNCHANGED caught
       \/ /\ caught' = "Exception"
          /\ Goto("handler")
          /\ UNCHANGED <<proc, bound>>
    /\ UNCHANGED <<sessionVars, terminated, elapsed, pending, interrupts, verified>>

\* line 118: time.sleep(5)
Settle ==
    /\ pc = "settle"
    /\ Goto("lookup")
    /\ UNCHANGED <<sessionVars, connectVars>>

\* lookup error handled by the except clause of connect_to_server
LookupErrorPropagates(outcome) ==
    IF outcome = "error"
    THEN /\ caught' = "Exception"
         /\ Goto("handler")
    ELSE /\ Goto(IF outcome = "match" THEN "latency" ELSE "established")
         /\ UNCHANGED caught

\* lines 121-144: where verify_connection goes after the lookup: the
\* latency probe on a match, back to connect_to_server on a mismatch
\* (line 142) and on an error of the lookup (lines 143-144)
AfterLookup(outcome) ==
    /\ Goto(IF outcome = "match" THEN "latency" ELSE "established")
    /\ UNCHANGED caught

\* lines 121-126 and 141-144
Lookup ==
    /\ pc = "lookup"
    /\ \E outcome \in {"match", "mismatch", "error"} :
         /\ verified' = outcome
         /\ AfterLookup(outcome)
    /\ UNCHANGED <<sessionVars, proc, bound, terminated, elapsed, pending, interrupts>>

\* lines 127-139: the latency probe; whatever it raises is dropped
Latency ==
    /\ pc = "latency"
    /\ Goto("established")
    /\ UNCHANGED <<sessionVars, connectVars>>

\* line 243: the print, which may raise (stdout closed)
Established ==
    /\ pc = "established"
    /\ \/ /\ Goto("poll")
          /\ UNCHANGED caught
       \/ /\ caught' = "Exception"
          /\ Goto("handler")
    /\ UNCHANGED <<sessionVars, proc, bound, terminated, elapsed, pending, interrupts, verified>>

\* lines 244-245: while openvpn_process.poll() is None: time.sleep(1)
Poll ==
    /\ pc = "poll"
    /\ IF Alive THEN Goto("poll") ELSE Goto("finally")
    /\ UNCHANGED <<sessionVars, connectVars>>

\* lines 248 and 250: the print of the except clause entered
Handler ==
    /\ pc = "handler"
    /\ Goto("finally")
    /\ UNCHANGED <<sessionVars, connectVars>>

\* line 254
Finally ==
    /\ pc = "finally"
    /\ IF bound /\ Alive THEN Goto("terminate") ELSE Goto("close")
    /\ UNCHANGED <<sessionVars, connectVars>>

\* line 255
Terminate ==
    /\ pc = "terminate"
    /\ terminated' = terminated + 1
    /\ proc' = IF proc = "running" THEN "terminating" ELSE proc
    /\ Goto("wait")
    /\ UNCHANGED <<sessionVars, bound, elapsed, caught, pending, interrupts, verified>>

\* wait() without a timeout
WaitForever ==
    /\ pc = "wait"
    /\ IF ~Alive
       THEN Goto("close") /\ UNCHANGED elapsed
       ELSE elapsed <= GraceTimeout /\ elapsed' = elapsed + 1 /\ Goto("wait")
    /\ UNCHANGED <<sessionVars, proc, bound, terminated, caught, pending, interrupts, verified>>

\* lines 256-258: wait(timeout=5) returns when the process has exited and
\* raises TimeoutExpired after 5 time units, which the except clause drops
Wait ==
    /\ pc = "wait"
    /\ IF ~Alive
       THEN Goto("close") /\ UNCHANGED elapsed
       ELSE /\ elapsed' = elapsed + 1
            /\ IF elapsed' = GraceTimeout THEN Goto("close") ELSE Goto("wait")
    /\ UNCHANGED <<sessionVars, proc, bound, terminated, caught, pending, interrupts, verified>>

\* line 311 moved into the loop of lines 314-329
CloseReprobing ==
    /\ pc = "close"
    /\ IF pending THEN Exit(130, "KeyboardInterrupt") ELSE Goto("submit")
    /\ UNCHANGED <<sessionVars, connectVars>>

\* lines 260-261 and 329: connect_to_server returns to the loop of main,
\* unless an exception is still propagating
Close ==
    /\ pc = "close"
    /\ IF pending THEN Exit(130, "KeyboardInterrupt") ELSE Goto("menu")
    /\ UNCHANGED <<sessionVars, connectVars>>

\* the openvpn process ends: on its own, or because of the terminate
ProcExit ==
    /\ Alive
    /\ pc # "exited"
    /\ proc' = IF proc = "terminating" THEN "stopped" ELSE "exited"
    /\ UNCHANGED <<sessionVars, pc, bound, terminated, elapsed, caught, pending,
                   interrupts, verified, raised, exitStatus>>

\* Ctrl+C while connect_to_server runs.  KeyboardInterrupt is no Exception:
\* line 143 lets it pass, the bare except clauses of lines 138 and 257
\* catch it, line 247 catches it inside the try statement of line 231.
Interrupt ==
    /\ interrupts < MaxInterrupts
    /\ interrupts' = interrupts + 1
    /\ \/ /\ pc \in {"synth", "close"}
          /\ Exit(130, "KeyboardInterrupt")
          /\ UNCHANGED <<caught, pending>>
       \/ /\ pc \in {"launch", "settle", "lookup", "established", "poll"}
          /\ caught' = "KeyboardInterrupt"
          /\ Goto("handler")
          /\ UNCHANGED pending
       \/ /\ pc = "latency"
          /\ Goto("established")
          /\ UNCHANGED <<caught, pending>>
       \/ /\ pc = "handler"
          /\ pending' = TRUE
          /\ Goto("finally")
          /\ UNCHANGED caught
       \/ /\ pc \in {"finally", "terminate", "wait"}
          /\ Goto("close")
          /\ UNCHANGED <<caught, pending>>
    /\ UNCHANGED <<sessionVars, proc, bound, terminated, elapsed, verified>>

\* every server extract_servers returned is tried as the selected one
SelectParsed(k) ==
    /\ pc = "submit"
    /\ k \in 1..Len(servers)
    /\ selected_server' = servers[k]
    /\ pc' = "synth"
    /\ UNCHANGED <<diskVars, rankVars, synthVars, uiVars, connectVars, raised, exitStatus>>

\* extract_servers applied to the file create_server_specific_config wrote
Reparse ==
    /\ pc = "launch"
    /\ reparsed' = extract_servers(output.lines)
    /\ pc' = "reparsed"
    /\ UNCHANGED <<diskVars, rankVars, selected_server, output, uiVars, connectVars,
                   raised, exitStatus>>

NextParse ==
    \/ MainParse
    \/ \E k \in 1..NumHosts : SelectParsed(k)
    \/ Synthesize
    \/ Reparse

SpecParse == InitParse /\ [][NextParse]_vars

(***************************************************************************)
(* find_fastest_server on lists shorter and longer than the pool.  With    *)
(* more servers than workers only the first MaxDone completions are        *)
(* followed.                                                               *)
(***************************************************************************)
PoolSizes == {1, 2, max_workers + 1}

InitPool ==
    /\ confExists = TRUE
    /\ fresh = TRUE
    /\ eol = TRUE
    /\ Start("parse", {SessionText(n) : n \in PoolSizes})

PoolProbeFinish(k, rt) ==
    /\ Len(servers) > NumHosts => Len(results) < MaxDone
    /\ ProbeFinish(k, rt)

NextPool ==
    \/ MainParse
    \/ Submit
    \/ \E k \in 1..(max_workers + 1) : ProbeStart(k)
    \/ \E k \in 1..(max_workers + 1), rt \in ResponseTimes : PoolProbeFinish(k, rt)
    \/ Rank

SpecPool == InitPool /\ [][NextPool]_vars

Next ==
    \/ RunGenerator
    \/ CheckConf
    \/ MainParse
    \/ Submit
    \/ \E k \in 1..NumHosts : ProbeStart(k)
    \/ \E k \in 1..NumHosts, rt \in ResponseTimes : ProbeFinish(k, rt)
    \/ Rank
    \/ Render
    \/ \E input \in Inputs : Prompt(input)
    \/ Synthesize
    \/ Launch
    \/ Settle
    \/ Lookup
    \/ Latency
    \/ Established
    \/ Poll
    \/ Handler
    \/ Finally
    \/ Terminate
    \/ Wait
    \/ Close
    \/ ProcExit
    \/ Interrupt

Spec == Init /\ [][Next]_vars

(***************************************************************************)
(* Properties.                                                             *)
(***************************************************************************)
\* find_fastest_server has returned and main has not yet gone on
Ranked == pc = "menu" /\ Len(results) = Len(servers)

\* the response time the probe of server sv reported
RtOf(sv) == (CHOOSE r \in {results[i] : i \in 1..Len(results)} : r.server = sv).rt

Entries(sv) == {i \in 1..Len(ranked_servers) : ranked_servers[i].server = sv}

\* C1: when connect_to_server returns to the loop of main after it started
\* the openvpn process, the process is not alive unless a terminate was
\* issued to it.
C1_TeardownOnEveryExitPath ==
    (pc = "menu" /\ bound) => proc # "running"

\* C2: after a Ctrl+C delivered once the openvpn process was started,
\* connect_to_server neither announces the connection nor stays in the
\* polling loop of lines 244-245.
C2_InterruptNeverLost ==
    (bound /\ interrupts > 0) => pc \notin {"established", "poll"}

\* C3: when the openvpn process does not exit on its own and the one Ctrl+C
\* of the attempt arrives after verify_connection returned, nothing is
\* raised out of connect_to_server, terminate is issued exactly once, the
\* wait ends within GraceTimeout time units, and control is back in main
\* whether or not the process has exited.
C3_Scenario ==
    /\ caught = "KeyboardInterrupt"
    /\ verified # "none"
    /\ interrupts = 1
    /\ proc \in {"running", "terminating", "stopped"}

C3_BoundedTeardown ==
    /\ pc = "wait" => elapsed < GraceTimeout
    /\ C3_Scenario =>
         /\ raised = "none"
         /\ pc \in {"handler", "finally", "terminate", "wait", "close", "menu"}
         /\ elapsed <= GraceTimeout
         /\ pc \in {"handler", "finally", "terminate"} => terminated = 0
         /\ pc \in {"wait", "close", "menu"} => terminated = 1 /\ proc # "running"

C3_Witness ==
    /\ C3_Scenario
    /\ pc = "menu"
    /\ proc = "terminating"
    /\ terminated = 1
    /\ elapsed = GraceTimeout

\* C4: a step of verify_connection that is not a Ctrl+C, whatever the lookup
\* gave (match, mismatch, error), leads on to the latency probe, to the
\* print of line 243 and to the polling loop, issues no terminate and leaves
\* the process as it is; only a failing print of line 243 goes elsewhere.
C4_VerificationAdvisory ==
    [][ ( /\ pc \in {"lookup", "latency", "established"}
          /\ pc' # pc
          /\ interrupts' = interrupts
          /\ ~(pc = "established" /\ caught' = "Exception") )
        => ( /\ pc' \in {"latency", "established", "poll"}
             /\ terminated' = 0
             /\ proc' = proc ) ]_vars

C4_Witness ==
    /\ pc = "poll"
    /\ verified = "error"
    /\ interrupts = 0
    /\ proc = "running"
    /\ terminated = 0

\* C5: the ranking is sorted non-decreasing by response time and no
\* unreachable entry stands before a reachable one.
C5_RankingSorted ==
    \A i, j \in 1..Len(ranked_servers) :
        i < j => /\ ranked_servers[i].rt <= ranked_servers[j].rt
                 /\ ~(ranked_servers[i].rt = Inf /\ ranked_servers[j].rt # Inf)

C5_Witness ==
    /\ Ranked
    /\ Len(ranked_servers) = 2
    /\ results[1].rt # Inf
    /\ results[2].rt < results[1].rt

\* C6 as stated: the ranking has exactly one entry for every input server,
\* reachable or not.
C6_RankingComplete ==
    Ranked =>
        /\ Len(ranked_servers) = Len(servers)
        /\ \A k \in 1..Len(servers) : Cardinality(Entries(servers[k])) = 1

\* C6 amended: when some server is reachable the ranking has exactly one
\* entry for every reachable server and none for an unreachable one; when
\* none is reachable it has exactly one entry for every input server.
C6_RankingCompleteAmended ==
    Ranked =>
        LET none == \A k \in 1..Len(servers) : RtOf(servers[k]) = Inf
        IN \A k \in 1..Len(servers) :
              Cardinality(Entries(servers[k])) =
                  IF none \/ RtOf(servers[k]) # Inf THEN 1 ELSE 0

C6_Witness ==
    /\ Ranked
    /\ Len(servers) = 2
    /\ Len(ranked_servers) = 1
    /\ \E k \in 1..2 : RtOf(servers[k]) = Inf

\* C7: when every probe is unreachable nothing is raised and the ranking is
\* the input servers, each with the response time inf, in the order of the
\* input list, whatever the order in which the probes completed.
AllProbesUnreachable ==
    Ranked /\ \A i \in 1..Len(results) : results[i].rt = Inf

C7_AllUnreachableInScanOrder ==
    AllProbesUnreachable =>
        /\ raised = "none"
        /\ Len(ranked_servers) = Len(servers)
        /\ \A k \in 1..Len(servers) :
              /\ ranked_servers[k].server = servers[k]
              /\ ranked_servers[k].rt = Inf

C7_Witness ==
    /\ AllProbesUnreachable
    /\ Len(servers) = 2
    /\ results[1].server = servers[2]
    /\ ranked_servers[1].server = servers[1]

Parsed == pc \notin {"generate", "check_conf", "parse"} /\ confExists

RemoteAt(text) == {i \in 1..Len(text) : text[i].kind = "remote"}
HostsIn(text) == {text[i].hostname : i \in RemoteAt(text)}
PortsIn(text, h) == {text[i].port : i \in {j \in RemoteAt(text) : text[j].hostname = h}}
FirstAt(text, h, p) ==
    CHOOSE i \in RemoteAt(text) :
        /\ text[i].hostname = h /\ text[i].port = p
        /\ \A j \in RemoteAt(text) :
              (text[j].hostname = h /\ text[j].port = p) => i <= j

\* C8: extract_servers returns exactly one record for every hostname of a
\* matching directive and no other record; the ports of a record are the
\* ports of the directives with its hostname, each once, in the order of
\* their first occurrence in the text.
C8_OneServerPerHostname ==
    Parsed =>
        /\ \A h \in HostsIn(content) :
              Cardinality({k \in 1..Len(servers) : servers[k].hostname = h}) = 1
        /\ \A k \in 1..Len(servers) :
              LET h == servers[k].hostname
                  ports == servers[k].ports
              IN /\ h \in HostsIn(content)
                 /\ {ports[i] : i \in 1..Len(ports)} = PortsIn(content, h)
                 /\ \A i, j \in 1..Len(ports) :
                       i < j => /\ ports[i] # ports[j]
                                /\ FirstAt(content, h, ports[i]) < FirstAt(content, h, ports[j])

C8_Witness ==
    /\ Parsed
    /\ Len(Matches(content)) = 3
    /\ Len(servers) = 1
    /\ Len(servers[1].ports) = 2
    /\ content[1] = content[3]

\* C9: when the generated configuration has no matching directive,
\* extract_servers returns an empty list, the program never prompts and
\* never starts an openvpn process, and it ends with a non-zero status.
C9_NoServersIsFatal ==
    (Parsed /\ Matches(content) = <<>>) =>
        /\ servers = <<>>
        /\ pc \in {"submit", "collect", "menu", "exited"}
        /\ proc = "none"
        /\ pc = "exited" => exitStatus # 0

C9_Witness ==
    /\ Parsed
    /\ Matches(content) = <<>>
    /\ pc = "exited"
    /\ raised = "IndexError"
    /\ exitStatus = 1

\* C10: an error of open() or write() in create_server_specific_config does
\* not end the session: it is reported and main shows the menu again.
C10_IOErrorReturnsToMenu ==
    ~(pc = "exited" /\ raised = "IOError")

\* C11: when no Ctrl+C arrived and connect_to_server returns after the
\* openvpn process it started has exited on its own, the failure was
\* reported: the except clause of line 249 was entered and printed the error.
C11_ProcessFailureReported ==
    (pc = "menu" /\ bound /\ proc = "exited" /\ interrupts = 0) => caught = "Exception"

\* create_server_specific_config has written the file for selected_server
Synthesized == pc \in {"launch", "reparsed"}

DirectivesOf(lines) == SelectSeq(lines, LAMBDA l : l.kind = "remote")
OthersOf(lines) == SelectSeq(lines, LAMBDA l : l.kind = "other")

\* C12: the file create_server_specific_config writes has exactly one
\* directive line for every port of the chosen server, in the order of its
\* ports and naming that server, has no other directive line, wherever the
\* directives stand in the template, and has the lines of the template that
\* are no remote lines unchanged and in their order.
C12_OnlyChosenDirectives ==
    Synthesized =>
        /\ DirectivesOf(output.lines) = ServerLines(selected_server)
        /\ OthersOf(output.lines) = OthersOf(content)

\* C19: extract_servers of the file written for a server e that
\* extract_servers found in the template returns e and nothing else.
C19_RoundTrip ==
    pc = "reparsed" => reparsed = <<selected_server>>

InRange(input) ==
    input.kind = "number" /\ 1 <= input.n /\ input.n <= Len(ranked_servers)

TopReachable == ranked_servers # <<>> /\ ranked_servers[1].rt # Inf

\* C13: a number k with 1 <= k <= N selects the k-th entry of the ranking;
\* E ends the session with "Goodbye"; an empty input selects the first entry
\* when that entry is reachable and selects nothing when it is not; nothing
\* else selects a server.
C13_SelectionRule ==
    /\ (pc = "synth" /\ choice_input # NoInput) =>
          \/ InRange(choice_input) /\ selected_server = ranked_servers[choice_input.n].server
          \/ /\ choice_input.kind = "empty"
             /\ TopReachable
             /\ selected_server = ranked_servers[1].server
    /\ (pc = "prompt" /\ choice_input # NoInput) =>
          /\ choice_input.kind # "E"
          /\ ~InRange(choice_input)
          /\ choice_input.kind = "empty" => ~TopReachable
          /\ selected_server = NoServer
    /\ choice_input.kind = "E" => pc = "exited" /\ exitStatus = 0 /\ raised = "none"

C13_Witness ==
    /\ pc = "synth"
    /\ choice_input.kind = "empty"
    /\ Len(ranked_servers) = 2
    /\ selected_server = ranked_servers[1].server

C13_WitnessNoDefault ==
    /\ pc = "prompt"
    /\ choice_input.kind = "empty"
    /\ ranked_servers[1].rt = Inf

\* an input that is no number of 1..N, not E and not an accepted default
InvalidInput(input) ==
    \/ input.kind = "text"
    \/ input.kind = "number" /\ ~InRange(input)
    \/ input.kind = "empty" /\ ~TopReachable

\* the step is one input() answered with an invalid input
InvalidInputStep ==
    /\ pc = "prompt"
    /\ choice_input' # choice_input
    /\ InvalidInput(choice_input')

\* what an invalid input leaves alone: the prompt repeats, nothing is
\* rendered, selected, written or started
PromptRepeats ==
    /\ pc' = "prompt"
    /\ UNCHANGED <<ranked_servers, servers, selected_server, output, proc, bound,
                   raised, exitStatus>>

\* C16 as stated: every invalid input, the empty input without a default
\* included, is answered with an error message and a new prompt, and
\* nothing is rendered, written or started.
C16_InvalidInputReported ==
    [][InvalidInputStep => (PromptRepeats /\ message' # "none")]_vars

\* C16 amended: every invalid input is followed by a new prompt with nothing
\* rendered, written or started; it is answered with an error message
\* unless it is empty.
C16_InvalidInputReprompted ==
    [][InvalidInputStep =>
          (PromptRepeats /\ (message' # "none" <=> choice_input'.kind # "empty"))]_vars

C16_Witness ==
    /\ pc = "prompt"
    /\ choice_input.kind = "number"
    /\ choice_input.n = Len(ranked_servers) + 1
    /\ message = "Invalid choice"

Startup == {"generate", "check_conf", "parse", "submit", "collect"}

\* C14: once find_fastest_server has returned, no step of the session
\* changes the ranking or the parsed servers, goes back to parsing or
\* probing, or leaves a probe queued or running.
C14_RankingBuiltOnce ==
    [][pc \notin Startup =>
          /\ ranked_servers' = ranked_servers
          /\ servers' = servers
          /\ pc' \notin Startup
          /\ \A k \in DOMAIN futures' : futures'[k] = "done"]_vars

C14_Witness ==
    /\ pc = "prompt"
    /\ proc = "stopped"
    /\ Len(ranked_servers) = 2
    /\ ranked_servers[1].rt = ranked_servers[2].rt

\* C15: when connect_to_server has returned and the menu is about to be
\* presented again, no tunnel process launched earlier is still running;
\* stated for the attempt cancelled by one Ctrl+C that line 249 caught, whose
\* teardown (terminate, then the wait of line 256) ran undisturbed.
C15_AtMostOneTunnel ==
    (pc = "menu" /\ caught = "KeyboardInterrupt" /\ interrupts = 1 /\ terminated = 1)
        => ~Alive

\* the results as_completed would deliver if the probes completed in the
\* order of the input list, each with the latency it had in this run
InScanOrder == [k \in 1..Len(servers) |-> Result(servers[k], RtOf(servers[k]))]

\* C18: the ranking depends on the endpoint list and the latencies alone:
\* whatever the order in which the probes completed, it is the ranking that
\* the same latencies give when the probes complete in the order of the list.
C18_CompletionOrderIrrelevant ==
    Ranked => ranked_servers = RankResults(servers, InScanOrder)

\* C20: when the run of generate.sh did not write riseup-ovpn.conf, main
\* goes no further than the check of line 302 and exits with status 1.
C20_StaleConfigurationNeverUsed ==
    (pc \notin {"generate", "check_conf"} /\ ~fresh) => (pc = "exited" /\ exitStatus = 1)

ResultsOf(sv) == {i \in 1..Len(results) : results[i].server = sv}

\* C17: during find_fastest_server there is one probe per input endpoint,
\* a probe that has completed has delivered exactly one result and any
\* other none, at most 10 probes run at the same time, and the ranking is
\* returned only when every probe has completed.
C17_ProbeBarrier ==
    /\ Cardinality(Running) <= max_workers
    /\ pc \in {"collect", "menu"} =>
          /\ Len(futures) = Len(servers)
          /\ \A k \in 1..Len(servers) :
                Cardinality(ResultsOf(servers[k])) = IF futures[k] = "done" THEN 1 ELSE 0
    /\ pc = "menu" =>
          /\ \A k \in 1..Len(servers) : futures[k] = "done"
          /\ Len(results) = Len(servers)

C17_Witness ==
    /\ pc = "collect"
    /\ Len(servers) = max_workers + 1
    /\ Cardinality(Running) = max_workers
    /\ futures[max_workers + 1] = "queued"
    /\ Len(results) = 0

C17_WitnessBarrier ==
    /\ pc = "menu"
    /\ Len(servers) = 2
    /\ results[1].server = servers[2]

====
